---------------------------- MODULE Spec2Model ----------------------------
(***************************************************************************)
(* A model of pi-hcsr04: the GPIOPin "class" (gpiopin.c), which drives one *)
(* sysfs GPIO line, and the HCSR04 "class" (hcsr04.c), whose measurement   *)
(* thread times the echo pulse, smooths the distance with an exponential   *)
(* running average and keeps a bounded count of good samples.              *)
(*                                                                         *)
(* Numbers.  A double that holds a distance is modelled exactly: a         *)
(* distance is counted in units of 1/2,000,000 metre, so that              *)
(* USEC_TO_METRES = 0.0001715 m = 343 units, and the running average is a  *)
(* fraction [num, den] of such units in lowest terms.  Floating-point      *)
(* rounding is not modelled.  The elapsed time of a cycle is an int; the   *)
(* values drawn for it lie far inside the range of a 32-bit int, where the *)
(* cast (int)(end - start) of hcsr04.c:208 leaves the value unchanged.     *)
(*                                                                         *)
(* Granularity.  One action is one call of an operation, or one iteration  *)
(* of the thread's loop, taken as a whole.  A failed assert() aborts the   *)
(* process (aborted = TRUE); nothing runs after that.                      *)
(***************************************************************************)
EXTENDS Integers, Sequences, FiniteSets, TLC

(***************************************************************************)
(* Program constants                                                       *)
(***************************************************************************)
\* main.c:23-24
PIN_SOUND == 17
PIN_ECHO == 27

\* hcsr04.h:19, in metres
HCSR04_MAX_RANGE == 4
\* hcsr04.h:27
HCSR04_VALID_SAMPLES == 4

\* The unit of length: hcsr04.c:27 gives USEC_TO_METRES as 343 / 1E6 / 2
UnitsPerMetre == 2 * 1000000
\* hcsr04.c:32: 0.0001715 m = 343 / 2,000,000 m
USEC_TO_METRES == 343

\* main.c:38: the smoothing factor 0.5, as a fraction
smoothing_num == 1
smoothing_den == 2

\* defs.h values used by the callers
LOW == FALSE
HIGH == TRUE

\* gpiopin.h:19-23
GPIOPIN_IN == 0
GPIOPIN_OUT == 1
\* gpiopin.h:26-32
GPIOPIN_NONE == 0
GPIOPIN_RISING == 1
GPIOPIN_FALLING == 2
GPIOPIN_BOTH == 3

\* The value returned for "no data": -1.0 metres (hcsr04.c:210, 231)
NO_DATA == 0 - UnitsPerMetre

(***************************************************************************)
(* Bounds of the model                                                     *)
(***************************************************************************)
\* Measurement cycles recorded after one hcsr04_init
MaxCycles == 5
\* Calls of hcsr04_init
MaxInits == 2
\* Loop threads started where the calls of a cycle are taken one by one
MaxLoops == 1
\* Measurement cycles the loop threads begin there
MaxLoopCycles == 2

(***************************************************************************)
(* Fractions                                                               *)
(***************************************************************************)
Abs(x) == IF x < 0 THEN 0 - x ELSE x

RECURSIVE GCD(_, _)
GCD(a, b) == IF b = 0 THEN a ELSE GCD(b, a % b)

\* The fraction n/m (m > 0) in lowest terms
Frac(n, m) ==
    LET g == GCD(Abs(n), m)
    IN  [num |-> n \div g, den |-> m \div g]

FracLeq(p, q) == p.num * q.den <= q.num * p.den

(***************************************************************************)
(* The kernel's sysfs GPIO interface, as gpiopin.c uses it                 *)
(*   sys.exported : the lines that have a /sys/class/gpio/gpioN directory  *)
(*   sys.direction, sys.edge, sys.level : the files of those directories   *)
(*   sys.fds : the file descriptors the process holds open                 *)
(***************************************************************************)
\* The lines the GPIO chip has (a Raspberry Pi exposes lines 0..53)
KernelLines == 0 .. 53

\* A line number the chip does not have
NoSuchLine == Cardinality(KernelLines)

\* The lines the objects of the model are created for
Pins == {PIN_SOUND, PIN_ECHO, NoSuchLine}

\* The state of the lines before the process has touched them, with the
\* lines of `exported` left exported by an earlier owner
SysfsInit(exported) ==
    [exported |-> exported,
     direction |-> [p \in Pins |-> "in"],
     edge |-> [p \in Pins |-> "none"],
     level |-> [p \in Pins |-> LOW],
     fds |-> {}]

\* What a write of `text` to a sysfs file does once the file is open.  A write
\* the kernel refuses (a line that is exported already, or that does not
\* exist) changes nothing.
SysfsWrite(file, pin, text, s) ==
    CASE file = "export" ->
           IF pin \in KernelLines /\ pin \notin s.exported
           THEN [s EXCEPT !.exported = @ \cup {pin},
                          !.direction[pin] = "in",
                          !.edge[pin] = "none",
                          !.level[pin] = LOW]
           ELSE s
      [] file = "unexport" ->
           IF pin \in s.exported
           THEN [s EXCEPT !.exported = @ \ {pin},
                          !.direction[pin] = "in",
                          !.edge[pin] = "none",
                          !.level[pin] = LOW]
           ELSE s
      [] file = "direction" ->
           [s EXCEPT !.direction[pin] = text,
                     !.level[pin] = IF text = "out" THEN LOW ELSE @]
      [] file = "edge" -> [s EXCEPT !.edge[pin] = text]

\* Whether the file can be opened: the export and unexport files exist always
\* and open unless permission is denied; a line's own files exist only while
\* the line is exported.
SysfsCanOpen(file, pin, env, s) ==
    IF file \in {"export", "unexport"}
    THEN env.export_ok
    ELSE pin \in s.exported /\ env.line_ok

\* open(2) returns the lowest descriptor that is free; 0, 1, 2 are taken
LowestFreeFd(fds) ==
    CHOOSE n \in 3 .. (3 + Cardinality(fds)) :
        /\ n \notin fds
        /\ \A m \in 3 .. (n - 1) : m \in fds

\* What the environment decides for one call: whether the export/unexport
\* file, and whether the line's own files, can be opened
Envs == [export_ok : BOOLEAN, line_ok : BOOLEAN]

(***************************************************************************)
(* gpiopin.c                                                               *)
(***************************************************************************)
NoError == "NULL"

gpiopin_create(pin) == [pin |-> pin, value_fd |-> -1]

\* error: whether the caller passed a non-NULL char **error.  The result of
\* fprintf and fclose is not looked at: ret is TRUE once fopen succeeded.
gpiopin_write_to_file(file, pin, text, error, env, s) ==
    IF SysfsCanOpen(file, pin, env, s)
    THEN [ret |-> TRUE, error |-> NoError,
          sys |-> SysfsWrite(file, pin, text, s)]
    ELSE [ret |-> FALSE,
          error |-> IF error THEN file ELSE NoError,
          sys |-> s]

\* gpiopin_init without the message when the value file cannot be opened
gpiopin_init_no_message(self, dir, error, env, s) ==
    LET x == gpiopin_write_to_file("export", self.pin, self.pin, error, env, s)
    IN  IF x.ret
        THEN LET w == gpiopin_write_to_file(
                          "direction", self.pin,
                          IF dir = GPIOPIN_OUT THEN "out" ELSE "in",
                          FALSE, env, x.sys)
                 opened == SysfsCanOpen("value", self.pin, env, w.sys)
                 fd == IF opened THEN LowestFreeFd(w.sys.fds) ELSE -1
             IN  [self |-> [self EXCEPT !.value_fd = fd],
                  ret |-> fd >= 0,
                  error |-> NoError,
                  sys |-> IF opened
                          THEN [w.sys EXCEPT !.fds = @ \cup {fd}]
                          ELSE w.sys]
        ELSE [self |-> self, ret |-> FALSE, error |-> x.error, sys |-> x.sys]

\* gpiopin.c:83-115
gpiopin_init(self, dir, error, env, s) ==
    LET x == gpiopin_write_to_file("export", self.pin, self.pin, error, env, s)
    IN  IF x.ret
        THEN LET w == gpiopin_write_to_file(
                          "direction", self.pin,
                          IF dir = GPIOPIN_OUT THEN "out" ELSE "in",
                          FALSE, env, x.sys)
                 opened == SysfsCanOpen("value", self.pin, env, w.sys)
                 fd == IF opened THEN LowestFreeFd(w.sys.fds) ELSE -1
             IN  [self |-> [self EXCEPT !.value_fd = fd],
                  ret |-> fd >= 0,
                  error |-> IF fd < 0 /\ error THEN "value" ELSE NoError,
                  sys |-> IF opened
                          THEN [w.sys EXCEPT !.fds = @ \cup {fd}]
                          ELSE w.sys]
        ELSE [self |-> self, ret |-> FALSE, error |-> x.error, sys |-> x.sys]

\* gpiopin_uninit without self->value_fd = -1
gpiopin_uninit_keeps_fd(self, env, s) ==
    LET closed == IF self.value_fd >= 0
                  THEN [s EXCEPT !.fds = @ \ {self.value_fd}]
                  ELSE s
        w == gpiopin_write_to_file("unexport", self.pin, self.pin,
                                   FALSE, env, closed)
    IN  [self |-> self, sys |-> w.sys,
         calls |-> [closed |-> {self.value_fd} \ {-1},
                    unexports |-> <<self.pin>>]]

\* gpiopin.c:120-129.  calls: the descriptors the call closed and the line
\* numbers it wrote to the unexport file (gpiopin.c:128), in order
gpiopin_uninit(self, env, s) ==
    LET closed == IF self.value_fd >= 0
                  THEN [s EXCEPT !.fds = @ \ {self.value_fd}]
                  ELSE s
        w == gpiopin_write_to_file("unexport", self.pin, self.pin,
                                   FALSE, env, closed)
    IN  [self |-> [self EXCEPT !.value_fd = -1], sys |-> w.sys,
         calls |-> [closed |-> {self.value_fd} \ {-1},
                    unexports |-> <<self.pin>>]]

\* gpiopin.c:71-78, for self # NULL: gpiopin_uninit, then free
gpiopin_destroy(self, env, s) == gpiopin_uninit(self, env, s)

\* ok is FALSE when assert (self->value_fd >= 0) fails
gpiopin_set(self, val, s) ==
    IF self.value_fd >= 0
    THEN [ok |-> TRUE,
          sys |-> IF self.pin \in s.exported
                       /\ s.direction[self.pin] = "out"
                  THEN [s EXCEPT !.level[self.pin] = val]
                  ELSE s]
    ELSE [ok |-> FALSE, sys |-> s]

\* ok is FALSE when assert (f >= 0) fails: the edge file cannot be opened
gpiopin_set_trigger(self, trigger, env, s) ==
    IF SysfsCanOpen("edge", self.pin, env, s)
    THEN [ok |-> TRUE,
          sys |-> gpiopin_write_to_file(
                      "edge", self.pin,
                      CASE trigger = GPIOPIN_BOTH -> "both"
                        [] trigger = GPIOPIN_RISING -> "rising"
                        [] trigger = GPIOPIN_FALLING -> "falling"
                        [] OTHER -> "none",
                      FALSE, env, s).sys]
    ELSE [ok |-> FALSE, sys |-> s]

\* gpiopin.c:145-153: the level of the line, as read from its value file
gpiopin_get(self, s) == s.level[self.pin] = HIGH

\* No edge comes (in place of the microseconds after which one comes)
NoEdge == 0 - 1

\* poll_timeout in seconds: poll (fdset, 1, usec / 1000000)
poll_timeout_seconds(usec) == (usec \div 1000000) * 1000

\* gpiopin.c:201: the third argument of poll, in milliseconds, as microseconds
poll_timeout(usec) == (usec \div 1000) * 1000

\* gpiopin.c:201: the microseconds poll takes to return, with the edge coming
\* `edge` microseconds after the call or never
poll_time(usec, edge) ==
    IF edge = NoEdge \/ edge > poll_timeout(usec)
    THEN poll_timeout(usec)
    ELSE edge

\* ok is FALSE when assert (self->value_fd >= 0) fails.  The call returns on
\* the edge or when the timeout has passed, and changes nothing.
gpiopin_wait_for_trigger(self, s) ==
    [ok |-> self.value_fd >= 0, sys |-> s]


(***************************************************************************)
(* hcsr04.c: the state of one HCSR04 object and of the process around it   *)
(***************************************************************************)
VARIABLES
    avg,            \* self->avg, a fraction of length units
    good_count,     \* self->good_count
    stop,           \* self->stop
    gpiopin_sound,  \* *self->gpiopin_sound
    gpiopin_echo,   \* *self->gpiopin_echo
    sys,            \* the kernel's GPIO lines and the open descriptors
    threads,        \* the hcsr04_loop threads that have not returned
    aborted,        \* an assert() has failed
    error,          \* the caller's char *error (main.c:39)
    ret,            \* the call made by the last step and what it returned
    elapsed,        \* history: end - start of the last cycle since init
    cycles,         \* history: the cycles completed since hcsr04_init
    run,            \* history: the last cycles in a row, up to
                    \* HCSR04_VALID_SAMPLES, that read a distance >= 0
    inits,          \* history: the calls of hcsr04_init so far
    line,           \* a GPIOPin object a caller uses on its own
    freed,          \* the objects that have been destroyed: "hcsr04", "line"
    pc,             \* where each hcsr04_loop thread is, in the specification
                    \* that takes the calls of a cycle one by one
    race            \* where an iteration's update and a caller's read are, in
                    \* the specification that takes them one access at a time

vars == <<avg, good_count, stop, gpiopin_sound, gpiopin_echo, sys, threads,
          aborted, error, ret, elapsed, cycles, run, inits, line,
          freed, pc, race>>

\* What the operations of hcsr04.c leave alone
gpiopin_vars == <<line>>

\* hcsr04.c:85: (int) (HCSR04_MAX_RANGE / USEC_TO_METRES)
max_time == (HCSR04_MAX_RANGE * UnitsPerMetre) \div USEC_TO_METRES

\* hcsr04_read_one with the comparison diff >= max_time
hcsr04_read_one_ge(usec) ==
    IF usec >= max_time THEN NO_DATA ELSE USEC_TO_METRES * usec

\* hcsr04.c:208-212, with usec = end - start in microseconds.  The result
\* is a length in units, NO_DATA for -1.0.
hcsr04_read_one(usec) ==
    LET diff == usec
    IN  IF diff > max_time
        THEN NO_DATA
        ELSE USEC_TO_METRES * usec

\* hcsr04.c:186-200: what hcsr04_read_one does to the two lines.  ok is FALSE
\* when one of the asserts of gpiopin.c fails on the way.
read_one_lines(sound, echo, env, s) ==
    LET a == gpiopin_set(sound, HIGH, s)
        b == gpiopin_set(sound, LOW, a.sys)
        c == gpiopin_set_trigger(echo, GPIOPIN_RISING, env, b.sys)
        e == gpiopin_wait_for_trigger(echo, c.sys)
        f == gpiopin_set_trigger(echo, GPIOPIN_FALLING, env, e.sys)
        g == gpiopin_wait_for_trigger(echo, f.sys)
    IN  CASE ~a.ok -> a
          [] ~b.ok -> b
          [] ~c.ok -> c
          [] ~e.ok -> e
          [] ~f.ok -> f
          [] OTHER -> g

\* loop_is_good with the test if (d)
loop_is_good_nonzero(x) == x # 0

\* hcsr04.c:117: the test that takes a sample as good
loop_is_good(x) == x > 0

\* loop_avg with the old average not weighted: d * (1 - smoothing) + avg
loop_avg_unweighted(x, a) ==
    Frac(x * (smoothing_den - smoothing_num) * a.den + a.num * smoothing_den,
         a.den * smoothing_den)

\* hcsr04.c:119
loop_avg(x, a) ==
    Frac(x * (smoothing_den - smoothing_num) * a.den + a.num * smoothing_num,
         a.den * smoothing_den)

\* loop_count_up without the clamp
loop_count_up_unclamped(n) == n + 1

\* hcsr04.c:120-122
loop_count_up(n) ==
    IF n + 1 > HCSR04_VALID_SAMPLES THEN HCSR04_VALID_SAMPLES ELSE n + 1

\* loop_count_down without the clamp
loop_count_down_unclamped(n) == n - 1

\* hcsr04.c:126-127
loop_count_down(n) ==
    IF n - 1 < 0 THEN 0 ELSE n - 1

\* hcsr04.c:218-221
hcsr04_is_distance_valid(n) == n >= HCSR04_VALID_SAMPLES

\* hcsr04_get_distance without the test of validity
hcsr04_get_distance_unchecked(n, a) == a

\* hcsr04.c:226-232
hcsr04_get_distance(n, a) ==
    IF hcsr04_is_distance_valid(n) THEN a ELSE Frac(NO_DATA, 1)

\* The value a call hands back, held in one shape for every call: bool for
\* the BOOL results (gpiopin.h:49, hcsr04.h:57), int for the length that
\* hcsr04_read_one returns (hcsr04.h:67), frac for the double of
\* hcsr04_get_distance (hcsr04.h:76), closed and unexports for the system
\* calls of a teardown (gpiopin.c:123-128).  Void is the value of a call
\* that returns nothing.
Void ==
    [bool |-> FALSE, int |-> 0, frac |-> Frac(0, 1), closed |-> {},
     unexports |-> <<>>]

RetBool(b) == [Void EXCEPT !.bool = b]

RetInt(n) == [Void EXCEPT !.int = n]

RetFrac(f) == [Void EXCEPT !.frac = f]

RetCalls(c) ==
    [Void EXCEPT !.closed = c.closed, !.unexports = c.unexports]

\* pc of a thread that hcsr04_init has not created (hcsr04.c:156).  at: the
\* statement the thread is at; late: the cycles it has completed with stop
\* set
NoThread == [at |-> "none", late |-> 0]

\* No iteration is in its update and no caller in a read.  pending: the
\* stores of the iteration in progress that no other thread can see yet
\* (hcsr04.c:119-127); x: what hcsr04_read_one returned to it (hcsr04.c:116);
\* before, after: good_count (n) and avg (a) before and after the whole
\* iteration; reading: hcsr04_get_distance has read good_count and not yet
\* avg (hcsr04.c:228-229); ok: what the call in progress, or the last one,
\* returns in the states before and after the iteration it met; spans: the
\* iterations the call in progress has met.
NoRace ==
    [pending |-> {}, x |-> 0,
     before |-> [n |-> 0, a |-> Frac(0, 1)],
     after |-> [n |-> 0, a |-> Frac(0, 1)],
     reading |-> FALSE, ok |-> {}, spans |-> 0]

\* hcsr04_create (hcsr04.c:75-88) and char *error = NULL (main.c:39), with
\* the kernel in any state an earlier run can have left the two lines in
Init ==
    /\ avg = Frac(0, 1)
    /\ good_count = 0
    /\ stop = FALSE
    /\ gpiopin_sound = gpiopin_create(PIN_SOUND)
    /\ gpiopin_echo = gpiopin_create(PIN_ECHO)
    /\ \E x \in SUBSET {PIN_SOUND, PIN_ECHO} : sys = SysfsInit(x)
    /\ threads = 0
    /\ aborted = FALSE
    /\ error = NoError
    /\ ret = [op |-> "hcsr04_create", val |-> Void]
    /\ elapsed = 0
    /\ cycles = 0
    /\ run = 0
    /\ inits = 0
    /\ line = gpiopin_create(PIN_ECHO)
    /\ freed = {}
    /\ pc = [i \in 1 .. MaxInits |-> NoThread]
    /\ race = NoRace

\* hcsr04.c:139-165
InitCall(envE, envS) ==
    /\ ~aborted
    /\ "hcsr04" \notin freed
    /\ inits < MaxInits
    /\ inits' = inits + 1
    /\ avg' = Frac(0, 1)
    /\ good_count' = 0
    /\ cycles' = 0
    /\ elapsed' = 0
    /\ run' = 0
    /\ UNCHANGED <<stop, gpiopin_vars, freed>>
    /\ LET e == gpiopin_init(gpiopin_echo, GPIOPIN_IN, TRUE, envE, sys)
       IN  /\ gpiopin_echo' = e.self
           /\ IF e.ret
              THEN LET s == gpiopin_init(gpiopin_sound, GPIOPIN_OUT, FALSE,
                                         envS, e.sys)
                       w == gpiopin_set(s.self, LOW, s.sys)
                   IN  /\ gpiopin_sound' = s.self
                       /\ sys' = w.sys
                       /\ error' = error
                       /\ IF w.ok
                          THEN /\ threads' = threads + 1
                               /\ ret' = [op |-> "hcsr04_init",
                                          val |-> RetBool(TRUE)]
                               /\ UNCHANGED aborted
                          ELSE /\ aborted' = TRUE
                               /\ ret' = [op |-> "abort", val |-> Void]
                               /\ UNCHANGED threads
              ELSE /\ sys' = e.sys
                   /\ error' = e.error
                   /\ ret' = [op |-> "hcsr04_init", val |-> RetBool(FALSE)]
                   /\ UNCHANGED <<gpiopin_sound, threads, aborted>>

\* The thread hcsr04_init starts runs its iterations in one step each
hcsr04_init ==
    /\ \E envE, envS \in Envs : InitCall(envE, envS)
    /\ UNCHANGED <<pc, race>>

\* hcsr04.c:170-176
hcsr04_uninit ==
    /\ ~aborted
    /\ "hcsr04" \notin freed
    /\ \E env \in Envs :
         LET s == gpiopin_uninit(gpiopin_sound, env, sys)
             e == gpiopin_uninit(gpiopin_echo, env, s.sys)
         IN  /\ gpiopin_sound' = s.self
             /\ gpiopin_echo' = e.self
             /\ sys' = e.sys
             /\ ret' = [op |-> "hcsr04_uninit",
                        val |-> RetCalls(
                            [closed |-> s.calls.closed \cup e.calls.closed,
                             unexports |-> s.calls.unexports
                                             \o e.calls.unexports])]
    /\ stop' = TRUE
    /\ UNCHANGED <<avg, good_count, threads, aborted, error, elapsed, cycles,
                   run, inits, gpiopin_vars, freed, pc, race>>

\* hcsr04.c:114-130: one iteration of the loop, in which `usec` microseconds
\* pass between the two readings of the clock.  ret shows what
\* hcsr04_read_one returned to the loop.
LoopCycle(usec) ==
    /\ ~aborted
    /\ "hcsr04" \notin freed
    /\ threads > 0
    /\ ~stop
    /\ LET io == read_one_lines(gpiopin_sound, gpiopin_echo,
                                [export_ok |-> TRUE, line_ok |-> TRUE], sys)
           x == hcsr04_read_one(usec)
       IN  /\ sys' = io.sys
           /\ IF io.ok
              THEN /\ elapsed' = usec
                   /\ cycles' = cycles + 1
                   /\ run' = IF x < 0 THEN 0
                             ELSE IF run < HCSR04_VALID_SAMPLES THEN run + 1
                             ELSE run
                   /\ IF loop_is_good(x)
                      THEN /\ avg' = loop_avg(x, avg)
                           /\ good_count' = loop_count_up(good_count)
                      ELSE /\ avg' = avg
                           /\ good_count' = loop_count_down(good_count)
                   /\ ret' = [op |-> "hcsr04_read_one", val |-> RetInt(x)]
                   /\ UNCHANGED aborted
              ELSE /\ aborted' = TRUE
                   /\ ret' = [op |-> "abort", val |-> Void]
                   /\ UNCHANGED <<elapsed, cycles, run, avg, good_count>>
    /\ UNCHANGED <<stop, gpiopin_sound, gpiopin_echo, threads, error, inits,
                   gpiopin_vars, freed, pc, race>>

\* hcsr04.c:114 and 131: the loop finds stop set and the thread returns
hcsr04_loop_return ==
    /\ ~aborted
    /\ "hcsr04" \notin freed
    /\ threads > 0
    /\ stop
    /\ threads' = threads - 1
    /\ ret' = [op |-> "hcsr04_loop", val |-> Void]
    /\ UNCHANGED <<avg, good_count, stop, gpiopin_sound, gpiopin_echo, sys,
                   aborted, error, elapsed, cycles, run, inits,
                   gpiopin_vars, freed, pc, race>>

\* hcsr04.c:93-102, for self # NULL: hcsr04_uninit, gpiopin_destroy of the
\* sound line, gpiopin_destroy of the echo line, free
hcsr04_destroy ==
    /\ ~aborted
    /\ "hcsr04" \notin freed
    /\ \E env \in Envs :
         LET s == gpiopin_uninit(gpiopin_sound, env, sys)
             e == gpiopin_uninit(gpiopin_echo, env, s.sys)
             ds == gpiopin_destroy(s.self, env, e.sys)
             de == gpiopin_destroy(e.self, env, ds.sys)
         IN  /\ gpiopin_sound' = ds.self
             /\ gpiopin_echo' = de.self
             /\ sys' = de.sys
             /\ ret' = [op |-> "hcsr04_destroy",
                        val |-> RetCalls(
                            [closed |-> s.calls.closed \cup e.calls.closed
                                         \cup ds.calls.closed
                                         \cup de.calls.closed,
                             unexports |-> s.calls.unexports
                                             \o e.calls.unexports
                                             \o ds.calls.unexports
                                             \o de.calls.unexports])]
    /\ stop' = TRUE
    /\ freed' = freed \cup {"hcsr04"}
    /\ UNCHANGED <<avg, good_count, threads, aborted, error, elapsed, cycles,
                   run, inits, gpiopin_vars, pc, race>>

\* hcsr04.c:114: a loop thread reads self->stop after hcsr04_destroy has
\* freed self (the thread is detached and never joined, hcsr04.c:156-157).
\* The read of freed memory can find the flag still set, and the thread
\* returns, or can end the process.
hcsr04_loop_freed ==
    /\ ~aborted
    /\ "hcsr04" \in freed
    /\ threads > 0
    /\ \/ /\ threads' = threads - 1
          /\ ret' = [op |-> "hcsr04_loop", val |-> Void]
          /\ UNCHANGED aborted
       \/ /\ aborted' = TRUE
          /\ ret' = [op |-> "abort", val |-> Void]
          /\ UNCHANGED threads
    /\ UNCHANGED <<avg, good_count, stop, gpiopin_sound, gpiopin_echo, sys,
                   error, elapsed, cycles, run, inits,
                   gpiopin_vars, freed, pc, race>>

\* A consumer's call of hcsr04_is_distance_valid (main.c:44)
IsDistanceValidCall ==
    /\ ~aborted
    /\ "hcsr04" \notin freed
    /\ ret' = [op |-> "hcsr04_is_distance_valid",
               val |-> RetBool(hcsr04_is_distance_valid(good_count))]
    /\ UNCHANGED <<avg, good_count, stop, gpiopin_sound, gpiopin_echo, sys,
                   threads, aborted, error, elapsed, cycles, run, inits,
                   gpiopin_vars, freed, pc, race>>

\* A consumer's call of hcsr04_get_distance (main.c:45)
GetDistanceCall ==
    /\ ~aborted
    /\ "hcsr04" \notin freed
    /\ ret' = [op |-> "hcsr04_get_distance",
               val |-> RetFrac(hcsr04_get_distance(good_count, avg))]
    /\ UNCHANGED <<avg, good_count, stop, gpiopin_sound, gpiopin_echo, sys,
                   threads, aborted, error, elapsed, cycles, run, inits,
                   gpiopin_vars, freed, pc, race>>

(***************************************************************************)
(* The elapsed times the environment produces                              *)
(***************************************************************************)
\* A clock set back during the cycle, no time at all, an echo from one metre
\* and the shortest time that is a timeout
ElapsedSet == {-1, 0, 5831, max_time + 1}

hcsr04_loop ==
    \E usec \in ElapsedSet :
        /\ cycles < MaxCycles
        /\ LoopCycle(usec)

Next ==
    \/ hcsr04_init
    \/ hcsr04_uninit
    \/ hcsr04_destroy
    \/ hcsr04_loop
    \/ hcsr04_loop_return
    \/ hcsr04_loop_freed
    \/ IsDistanceValidCall
    \/ GetDistanceCall

Spec == Init /\ [][Next]_vars

(***************************************************************************)
(* The scenario of a stable target that is lost: four echoes from about    *)
(* one metre (1.00, 1.02, 0.98 and 1.01 m to the centimetre), then five    *)
(* timeouts of max_time + 1 microseconds                                   *)
(***************************************************************************)
Tape ==
    <<5831, 5948, 5714, 5889,
      max_time + 1, max_time + 1, max_time + 1, max_time + 1, max_time + 1>>

\* One iteration of the loop, the environment following the tape
hcsr04_loop_tape ==
    /\ cycles < Len(Tape)
    /\ LoopCycle(Tape[cycles + 1])

NextScenario ==
    \/ hcsr04_init
    \/ hcsr04_uninit
    \/ hcsr04_loop_tape
    \/ hcsr04_loop_return
    \/ IsDistanceValidCall
    \/ GetDistanceCall

SpecScenario == Init /\ [][NextScenario]_vars

(***************************************************************************)
(* hcsr04_read_one called on its own (hcsr04.h:67), over every elapsed     *)
(* time near zero and near max_time                                        *)
(***************************************************************************)
\* How far around 0 and around max_time the elapsed times are drawn
Margin == 20

ElapsedRange ==
    ((0 - Margin) .. Margin) \cup ((max_time - Margin) .. (max_time + Margin))

\* hcsr04.c:181-213
ReadOneCall(usec) ==
    /\ ~aborted
    /\ "hcsr04" \notin freed
    /\ LET io == read_one_lines(gpiopin_sound, gpiopin_echo,
                                [export_ok |-> TRUE, line_ok |-> TRUE], sys)
       IN  /\ sys' = io.sys
           /\ IF io.ok
              THEN /\ elapsed' = usec
                   /\ ret' = [op |-> "hcsr04_read_one",
                              val |-> RetInt(hcsr04_read_one(usec))]
                   /\ UNCHANGED aborted
              ELSE /\ aborted' = TRUE
                   /\ ret' = [op |-> "abort", val |-> Void]
                   /\ UNCHANGED elapsed
    /\ UNCHANGED <<avg, good_count, stop, gpiopin_sound, gpiopin_echo, threads,
                   error, cycles, run, inits, gpiopin_vars, freed, pc, race>>

hcsr04_read_one_call == \E usec \in ElapsedRange : ReadOneCall(usec)

NextReadOne ==
    \/ hcsr04_init
    \/ hcsr04_read_one_call

SpecReadOne == Init /\ [][NextReadOne]_vars

(***************************************************************************)
(* A GPIOPin object used on its own: gpiopin_create, then any calls of     *)
(* gpiopin.h                                                               *)
(***************************************************************************)
\* What the operations on `line` leave alone
hcsr04_vars ==
    <<avg, good_count, stop, gpiopin_sound, gpiopin_echo, threads, elapsed,
      cycles, run, pc, race>>

\* gpiopin_create (gpiopin.c:32-39) for a line the chip has or has not, the
\* line exported already by another owner or not
InitGpio ==
    /\ avg = Frac(0, 1)
    /\ good_count = 0
    /\ stop = FALSE
    /\ gpiopin_sound = gpiopin_create(PIN_SOUND)
    /\ gpiopin_echo = gpiopin_create(PIN_ECHO)
    /\ \E x \in SUBSET {PIN_ECHO} : sys = SysfsInit(x)
    /\ threads = 0
    /\ aborted = FALSE
    /\ error = NoError
    /\ ret = [op |-> "gpiopin_create", val |-> Void]
    /\ elapsed = 0
    /\ cycles = 0
    /\ run = 0
    /\ inits = 0
    /\ \E p \in {PIN_ECHO, NoSuchLine} : line = gpiopin_create(p)
    /\ freed = {}
    /\ pc = [i \in 1 .. MaxInits |-> NoThread]
    /\ race = NoRace

\* gpiopin.c:83-115, the caller's char *error being NULL before the call
GpioInitCall(dir, witherror, env) ==
    /\ ~aborted
    /\ "line" \notin freed
    /\ inits < MaxInits
    /\ inits' = inits + 1
    /\ LET r == gpiopin_init(line, dir, witherror, env, sys)
       IN  /\ line' = r.self
           /\ sys' = r.sys
           /\ error' = r.error
           /\ ret' = [op |-> "gpiopin_init", val |-> RetBool(r.ret)]
    /\ UNCHANGED <<hcsr04_vars, freed, aborted>>

GpioInit ==
    \E dir \in {GPIOPIN_IN, GPIOPIN_OUT}, witherror \in BOOLEAN, env \in Envs :
        GpioInitCall(dir, witherror, env)

\* gpiopin.c:120-129
GpioUninit ==
    /\ ~aborted
    /\ "line" \notin freed
    /\ \E env \in Envs :
         LET r == gpiopin_uninit(line, env, sys)
         IN  /\ line' = r.self
             /\ sys' = r.sys
             /\ ret' = [op |-> "gpiopin_uninit", val |-> RetCalls(r.calls)]
    /\ UNCHANGED <<hcsr04_vars, freed, aborted, error, inits>>

\* gpiopin.c:134-140
GpioSet ==
    /\ ~aborted
    /\ "line" \notin freed
    /\ \E val \in {LOW, HIGH} :
         LET r == gpiopin_set(line, val, sys)
         IN  /\ sys' = r.sys
             /\ aborted' = ~r.ok
             /\ ret' = [op |-> IF r.ok THEN "gpiopin_set" ELSE "abort",
                        val |-> Void]
    /\ UNCHANGED <<hcsr04_vars, freed, error, inits, line>>

\* gpiopin.c:145-153.  When the read fails (no descriptor) c is returned
\* uninitialized: either answer can come back.
GpioGet ==
    /\ ~aborted
    /\ "line" \notin freed
    /\ \E b \in BOOLEAN :
         /\ line.value_fd >= 0 => b = gpiopin_get(line, sys)
         /\ ret' = [op |-> "gpiopin_get", val |-> RetBool(b)]
    /\ UNCHANGED <<hcsr04_vars, freed, sys, aborted, error, inits, line>>

\* gpiopin.c:158-180
GpioSetTrigger ==
    /\ ~aborted
    /\ "line" \notin freed
    /\ \E trigger \in {GPIOPIN_NONE, GPIOPIN_RISING, GPIOPIN_FALLING,
                         GPIOPIN_BOTH},
          env \in Envs :
         LET r == gpiopin_set_trigger(line, trigger, env, sys)
         IN  /\ sys' = r.sys
             /\ aborted' = ~r.ok
             /\ ret' = [op |-> IF r.ok THEN "gpiopin_set_trigger" ELSE "abort",
                        val |-> Void]
    /\ UNCHANGED <<hcsr04_vars, freed, error, inits, line>>

\* gpiopin.c:191-204
GpioWaitForTrigger ==
    /\ ~aborted
    /\ "line" \notin freed
    /\ LET r == gpiopin_wait_for_trigger(line, sys)
       IN  /\ sys' = r.sys
           /\ aborted' = ~r.ok
           /\ ret' = [op |-> IF r.ok THEN "gpiopin_wait_for_trigger"
                             ELSE "abort",
                      val |-> Void]
    /\ UNCHANGED <<hcsr04_vars, freed, error, inits, line>>

\* gpiopin.c:71-78
GpioDestroy ==
    /\ ~aborted
    /\ "line" \notin freed
    /\ \E env \in Envs :
         LET r == gpiopin_destroy(line, env, sys)
         IN  /\ line' = r.self
             /\ sys' = r.sys
             /\ ret' = [op |-> "gpiopin_destroy", val |-> RetCalls(r.calls)]
    /\ freed' = freed \cup {"line"}
    /\ UNCHANGED <<hcsr04_vars, aborted, error, inits>>

NextGpio ==
    \/ GpioInit
    \/ GpioUninit
    \/ GpioDestroy
    \/ GpioSet
    \/ GpioGet
    \/ GpioSetTrigger
    \/ GpioWaitForTrigger

SpecGpio == InitGpio /\ [][NextGpio]_vars


(***************************************************************************)
(* Properties                                                              *)
(***************************************************************************)
Min(a, b) == IF a < b THEN a ELSE b
Max(a, b) == IF a > b THEN a ELSE b

FracAdd(p, q) == Frac(p.num * q.den + q.num * p.den, p.den * q.den)
FracMul(p, q) == Frac(p.num * q.num, p.den * q.den)

\* n/m metres, in length units
Metres(n, m) == Frac(n * UnitsPerMetre, m)

\* The smoothing factor s and 1 - s
SmoothingFactor == Frac(smoothing_num, smoothing_den)
OneMinusSmoothing == Frac(smoothing_den - smoothing_num, smoothing_den)

\* The invalid sentinel
Sentinel == Frac(NO_DATA, 1)

\* isValid() and getDistance() in the current state
IsValid == hcsr04_is_distance_valid(good_count)
Distance == hcsr04_get_distance(good_count, avg)

\* C1: good_count is within [0, HCSR04_VALID_SAMPLES] after hcsr04_init and
\* after every completed iteration of the loop, whatever the samples are.
C1_GoodCountInRange == good_count \in 0 .. HCSR04_VALID_SAMPLES

\* C1's case: a good sample arrived when the count was at the threshold (five
\* good samples in the five cycles since init) and the count was clamped.
C1_Witness ==
    /\ cycles = HCSR04_VALID_SAMPLES + 1
    /\ avg.den = smoothing_den ^ cycles
    /\ good_count = HCSR04_VALID_SAMPLES

\* C2: after HCSR04_VALID_SAMPLES valid (non-negative) samples in a row
\* isValid() is true, and one invalid sample in a state where isValid() is
\* true makes it false.
C2_ThresholdIsExact ==
    [][/\ run' = HCSR04_VALID_SAMPLES
            => good_count' >= HCSR04_VALID_SAMPLES
       /\ (/\ cycles' = cycles + 1
           /\ good_count >= HCSR04_VALID_SAMPLES
           /\ ret'.op = "hcsr04_read_one"
           /\ ret'.val.int < 0)
            => ~(good_count' >= HCSR04_VALID_SAMPLES)]_vars

\* C3: in a state where the count is at the threshold, one invalid sample (a
\* timeout) leaves isValid() true and getDistance() returning the running
\* average.
C3_OneBadSampleKeepsValid ==
    [][(/\ cycles' = cycles + 1
        /\ good_count = HCSR04_VALID_SAMPLES
        /\ ret'.op = "hcsr04_read_one"
        /\ ret'.val.int = NO_DATA)
         => /\ hcsr04_is_distance_valid(good_count')
            /\ hcsr04_get_distance(good_count', avg') = avg']_vars

\* C4: hcsr04_read_one returns the sentinel for every elapsed > max_time, and
\* elapsed * USEC_TO_METRES, a distance in [0, HCSR04_MAX_RANGE], for every
\* 0 <= elapsed <= max_time.
C4_ReadOneClassifies ==
    ret.op = "hcsr04_read_one" =>
        /\ elapsed > max_time => ret.val.int = NO_DATA /\ ret.val.int < 0
        /\ (0 <= elapsed /\ elapsed <= max_time) =>
              /\ ret.val.int = elapsed * USEC_TO_METRES
              /\ 0 <= ret.val.int
              /\ ret.val.int <= HCSR04_MAX_RANGE * UnitsPerMetre

\* C4's case: the longest elapsed time that is accepted was read.
C4_Witness ==
    /\ ret.op = "hcsr04_read_one"
    /\ elapsed = max_time
    /\ ret.val.int > 0

\* C5: an iteration whose hcsr04_read_one result d is >= 0, zero included,
\* sets avg to d*(1 - smoothing) + avg*smoothing and raises good_count by
\* one, up to HCSR04_VALID_SAMPLES.
C5_GoodSampleUpdates ==
    [][(/\ cycles' = cycles + 1
        /\ ret'.op = "hcsr04_read_one"
        /\ ret'.val.int >= 0)
         => /\ avg' = FracAdd(FracMul(Frac(ret'.val.int, 1),
                                      OneMinusSmoothing),
                              FracMul(avg, SmoothingFactor))
            /\ good_count' = Min(good_count + 1, HCSR04_VALID_SAMPLES)]_vars

\* C6: an iteration whose hcsr04_read_one result is the timeout sentinel
\* leaves avg unchanged, lowers good_count by one, not below 0, and raises
\* no error.
C6_TimeoutLeavesAverage ==
    [][(/\ cycles' = cycles + 1
        /\ ret'.op = "hcsr04_read_one"
        /\ ret'.val.int = NO_DATA)
         => /\ avg' = avg
            /\ good_count' = Max(good_count - 1, 0)
            /\ aborted' = aborted
            /\ error' = error]_vars

\* C6's case: a timeout after four good samples.
C6_Witness ==
    /\ ret.op = "hcsr04_read_one"
    /\ ret.val.int = NO_DATA
    /\ elapsed = max_time + 1
    /\ cycles = HCSR04_VALID_SAMPLES + 1
    /\ good_count = HCSR04_VALID_SAMPLES - 1
    /\ avg.den = smoothing_den ^ HCSR04_VALID_SAMPLES

\* C7: hcsr04_get_distance returns avg when the distance is valid and the
\* sentinel when it is not; it and hcsr04_is_distance_valid change nothing
\* of the sensor, of the lines or of the threads, and run no cycle.
C7_ReadsArePure ==
    [][/\ ret'.op = "hcsr04_get_distance"
            => /\ ret'.val.frac = IF good_count >= HCSR04_VALID_SAMPLES
                             THEN avg ELSE Sentinel
               /\ UNCHANGED <<avg, good_count, stop, gpiopin_sound,
                              gpiopin_echo, sys, threads, cycles, aborted>>
       /\ ret'.op = "hcsr04_is_distance_valid"
            => /\ ret'.val.bool = (good_count >= HCSR04_VALID_SAMPLES)
               /\ UNCHANGED <<avg, good_count, stop, gpiopin_sound,
                              gpiopin_echo, sys, threads, cycles, aborted>>
      ]_vars

\* C7's case: hcsr04_get_distance was called in a valid state and returned
\* the running average.
C7_Witness ==
    /\ ret.op = "hcsr04_get_distance"
    /\ good_count = HCSR04_VALID_SAMPLES
    /\ ret.val.frac = avg
    /\ avg.num > 0

\* A length in units, rounded to centimetres
Centimetres(x) == (x * 100 + UnitsPerMetre \div 2) \div UnitsPerMetre

\* C8, as claimed: after the four cycles of the tape on a freshly
\* initialised sensor, isValid() is true and getDistance() is within
\* [0.99, 1.02] metres.
C8_Claimed ==
    cycles = HCSR04_VALID_SAMPLES =>
        /\ IsValid
        /\ FracLeq(Metres(99, 100), Distance)
        /\ FracLeq(Distance, Metres(102, 100))

\* C8, amended: after the four cycles of the tape on a freshly initialised
\* sensor, isValid() is true and getDistance() is within [0.93, 0.95]
\* metres: the average starts at 0.0, which keeps the weight 1/16.
C8_Amended ==
    cycles = HCSR04_VALID_SAMPLES =>
        /\ IsValid
        /\ FracLeq(Metres(93, 100), Distance)
        /\ FracLeq(Distance, Metres(95, 100))

\* C8's case: the four cycles read 1.00, 1.02, 0.98 and 1.01 metres and
\* hcsr04_get_distance was called after the fourth.
C8_Witness ==
    /\ cycles = HCSR04_VALID_SAMPLES
    /\ elapsed = Tape[HCSR04_VALID_SAMPLES]
    /\ <<Centimetres(hcsr04_read_one(Tape[1])),
         Centimetres(hcsr04_read_one(Tape[2])),
         Centimetres(hcsr04_read_one(Tape[3])),
         Centimetres(hcsr04_read_one(Tape[4]))>> = <<100, 102, 98, 101>>
    /\ ret.op = "hcsr04_get_distance"
    /\ ret.val.frac = avg

\* C9: from the valid state of the tape (good_count = 4), after the k-th of
\* the five timeouts good_count is 4 - k, not below 0: it reaches 0 with the
\* fourth and stays 0; from then on isValid() is false and getDistance()
\* returns the sentinel.
C9_TimeoutsDrainCount ==
    \A k \in 0 .. (Len(Tape) - HCSR04_VALID_SAMPLES) :
        cycles = HCSR04_VALID_SAMPLES + k =>
            /\ good_count = Max(HCSR04_VALID_SAMPLES - k, 0)
            /\ k >= HCSR04_VALID_SAMPLES =>
                  /\ ~IsValid
                  /\ Distance = Sentinel

\* C9's case: the fifth timeout has been read and hcsr04_get_distance called.
C9_Witness ==
    /\ cycles = Len(Tape)
    /\ elapsed = max_time + 1
    /\ good_count = 0
    /\ ret.op = "hcsr04_get_distance"
    /\ ret.val.frac = Sentinel

\* C10: gpiopin_init fails whenever the write to the export file fails, fails
\* when the value file cannot be opened, and succeeds only if the export
\* write succeeded and the value file is open.  The export write has
\* succeeded exactly when the call has made the line exported.
C10_InitFailsWhenExportFails ==
    [][(ret'.op = "gpiopin_init" /\ inits' = inits + 1)
         => LET written == /\ line.pin \notin sys.exported
                           /\ line.pin \in sys'.exported
            IN  /\ ~written => ret'.val.bool = FALSE
                /\ line'.value_fd < 0 => ret'.val.bool = FALSE
                /\ ret'.val.bool = TRUE
                     => (written /\ line'.value_fd >= 0)]_vars

\* C11: a gpiopin_init that returns failure leaves nothing held that the call
\* acquired: no value descriptor opened by the call stays open, and a line
\* that was not exported before the call is not exported after it.
C11_FailedInitHoldsNothing ==
    [][(ret'.op = "gpiopin_init" /\ inits' = inits + 1 /\ ret'.val.bool = FALSE)
         => /\ line'.value_fd < 0 \/ line'.value_fd = line.value_fd
            /\ sys'.fds \subseteq sys.fds
            /\ line.pin \notin sys.exported
                 => line.pin \notin sys'.exported]_vars

\* C12: a gpiopin_uninit that follows a successful gpiopin_init at once leaves
\* the line with no open value descriptor (value_fd is -1 and the descriptor
\* the init opened is closed) and writes the line's number to the unexport
\* file exactly once.
C12_InitThenUninit ==
    [][(/\ ret.op = "gpiopin_init"
        /\ ret.val.bool = TRUE
        /\ ret'.op = "gpiopin_uninit")
         => /\ line'.value_fd = -1
            /\ line.value_fd \notin sys'.fds
            /\ ret'.val.closed = {line.value_fd}
            /\ ret'.val.unexports = <<line.pin>>]_vars

\* C12's case: the only gpiopin_init so far succeeded and gpiopin_uninit has
\* closed the descriptor it opened and unexported the line.
C12_Witness ==
    /\ ret.op = "gpiopin_uninit"
    /\ inits = 1
    /\ ret.val.closed = {3}
    /\ ret.val.unexports = <<PIN_ECHO>>
    /\ line = gpiopin_create(PIN_ECHO)
    /\ sys.fds = {}
    /\ PIN_ECHO \notin sys.exported

\* C13: gpiopin_uninit and gpiopin_destroy on a line that is not initialised
\* (never initialised, init failed, or uninitialised already) change nothing
\* of the kernel's lines and write nothing to the unexport file.
C13_TeardownOnlyWhenActive ==
    [][(/\ ret'.op \in {"gpiopin_uninit", "gpiopin_destroy"}
        /\ line.value_fd < 0)
         => /\ ret'.val.unexports = <<>>
            /\ sys' = sys]_vars

\* C14: the value descriptor of a line is open exactly from a successful
\* gpiopin_init to the next gpiopin_uninit or gpiopin_destroy: a gpiopin_init
\* leaves it open if it returns TRUE and not open if it returns FALSE,
\* gpiopin_uninit and gpiopin_destroy leave it not open, and no other call
\* changes it.  (After gpiopin_create it is not open: InitGpio.)
C14_HandleIffInitialised ==
    [][/\ (ret'.op = "gpiopin_init" /\ inits' = inits + 1)
            => (line'.value_fd >= 0 <=> ret'.val.bool = TRUE)
       /\ ret'.op \in {"gpiopin_uninit", "gpiopin_destroy"}
            => line'.value_fd < 0
       /\ ret'.op \in {"gpiopin_set", "gpiopin_get", "gpiopin_set_trigger",
                       "gpiopin_wait_for_trigger", "abort"}
            => line'.value_fd = line.value_fd]_vars

\* C15: hcsr04_init initialises the echo line, as an input, before the sound
\* line.  When the echo line's gpiopin_init fails, hcsr04_init returns FALSE
\* with the error set, nothing of the sound line is touched (its object, its
\* export, its direction, its level), no thread is started, good_count is 0
\* and the distance is not valid.  When hcsr04_init returns TRUE the echo line
\* is an open input, opened before the sound line if that was opened (the
\* lower of the two descriptors).
C15_EchoFirst ==
    [][(ret'.op = "hcsr04_init" /\ inits' = inits + 1)
         => /\ ret'.val.bool = FALSE
                 => /\ gpiopin_echo'.value_fd < 0
                       \/ gpiopin_echo'.value_fd = gpiopin_echo.value_fd
                    /\ error' # NoError
                    /\ gpiopin_sound' = gpiopin_sound
                    /\ (PIN_SOUND \in sys'.exported)
                          = (PIN_SOUND \in sys.exported)
                    /\ sys'.direction[PIN_SOUND] = sys.direction[PIN_SOUND]
                    /\ sys'.level[PIN_SOUND] = sys.level[PIN_SOUND]
                    /\ threads' = threads
                    /\ good_count' = 0
                    /\ ~hcsr04_is_distance_valid(good_count')
            /\ ret'.val.bool = TRUE
                 => /\ gpiopin_echo'.value_fd >= 0
                    /\ sys'.direction[PIN_ECHO] = "in"
                    /\ gpiopin_sound'.value_fd # gpiopin_sound.value_fd
                          => gpiopin_echo'.value_fd < gpiopin_sound'.value_fd
                    /\ threads' = threads + 1]_vars

\* C15's case: the first hcsr04_init failed at the value file of the echo
\* line, which it had exported; the sound line is as it was created.
C15_Witness ==
    /\ ret.op = "hcsr04_init"
    /\ ret.val.bool = FALSE
    /\ inits = 1
    /\ error = "value"
    /\ PIN_ECHO \in sys.exported
    /\ PIN_SOUND \notin sys.exported
    /\ gpiopin_sound = gpiopin_create(PIN_SOUND)
    /\ threads = 0

\* C16: a hcsr04_init in which the echo line's gpiopin_init succeeds (it opens
\* a new descriptor) and the sound line's gpiopin_init fails (the sound line
\* gets no new descriptor) still completes: it returns TRUE, nothing aborts,
\* the sound line is low and a loop thread is started.
C16_SoundFailureTolerated ==
    [][(/\ inits' = inits + 1
        /\ gpiopin_echo'.value_fd >= 0
        /\ gpiopin_echo'.value_fd # gpiopin_echo.value_fd
        /\ \/ gpiopin_sound'.value_fd < 0
           \/ gpiopin_sound'.value_fd = gpiopin_sound.value_fd)
         => /\ ret'.op = "hcsr04_init"
            /\ ret'.val.bool = TRUE
            /\ ~aborted'
            /\ sys'.level[PIN_SOUND] = LOW
            /\ threads' = threads + 1]_vars

(***************************************************************************)
(* The loop threads taken one call at a time, so that the calls of a cycle *)
(* interleave with hcsr04_init, hcsr04_uninit and hcsr04_destroy of the    *)
(* caller and with the other loop threads.  Thread i is the one the i-th   *)
(* call of hcsr04_init started.                                            *)
(***************************************************************************)
\* hcsr04.c:193 and 200: the microseconds given to gpiopin_wait_for_trigger
TRIGGER_WAIT == 500000

\* When the falling edge of the echo comes after the second wait has begun:
\* an echo from one metre, the shortest echo that is too late, or never (the
\* sensor did not answer: the echo never rose, or rose and never fell)
EchoSet == {5831, max_time + 1, NoEdge}

\* hcsr04.c:139-165, pthread_create at 156 included
hcsr04_init_thread ==
    /\ inits < MaxLoops
    /\ \E envE, envS \in Envs : InitCall(envE, envS)
    /\ pc' = IF threads' = threads + 1
             THEN [pc EXCEPT ![inits'] = [at |-> "while", late |-> 0]]
             ELSE pc
    /\ UNCHANGED race

\* What a step of a loop thread that calls a gpiopin function leaves alone
loop_call_vars ==
    <<avg, good_count, stop, gpiopin_sound, gpiopin_echo, threads, error,
      elapsed, cycles, run, inits, line, freed, race>>

\* Thread i calls the gpiopin function `op` at `from`; r is what the call
\* returns.  A failed assert ends the process.
LoopCall(i, from, to, op, r) ==
    /\ ~aborted
    /\ "hcsr04" \notin freed
    /\ pc[i].at = from
    /\ sys' = r.sys
    /\ IF r.ok
       THEN /\ pc' = [pc EXCEPT ![i].at = to]
            /\ ret' = [op |-> op, val |-> Void]
            /\ UNCHANGED aborted
       ELSE /\ aborted' = TRUE
            /\ ret' = [op |-> "abort", val |-> Void]
            /\ UNCHANGED pc
    /\ UNCHANGED loop_call_vars

\* hcsr04.c:114 and 131: while (!self->stop), and return NULL.  A thread does
\* not begin a cycle beyond MaxLoopCycles.
loop_while(i) ==
    /\ ~aborted
    /\ "hcsr04" \notin freed
    /\ pc[i].at = "while"
    /\ stop \/ cycles < MaxLoopCycles
    /\ IF stop
       THEN /\ pc' = [pc EXCEPT ![i].at = "done"]
            /\ threads' = threads - 1
            /\ ret' = [op |-> "hcsr04_loop", val |-> Void]
       ELSE /\ pc' = [pc EXCEPT ![i].at = "set_high"]
            /\ ret' = [op |-> "while", val |-> Void]
            /\ UNCHANGED threads
    /\ UNCHANGED <<avg, good_count, stop, gpiopin_sound, gpiopin_echo, sys,
                   aborted, error, elapsed, cycles, run, inits,
                   line, freed, race>>

\* hcsr04.c:186
read_one_set_high(i) ==
    LoopCall(i, "set_high", "set_low", "gpiopin_set",
             gpiopin_set(gpiopin_sound, HIGH, sys))

\* hcsr04.c:187-188
read_one_set_low(i) ==
    LoopCall(i, "set_low", "trigger_rising", "gpiopin_set",
             gpiopin_set(gpiopin_sound, LOW, sys))

\* hcsr04.c:192
read_one_trigger_rising(i) ==
    LoopCall(i, "trigger_rising", "wait_rising", "gpiopin_set_trigger",
             gpiopin_set_trigger(gpiopin_echo, GPIOPIN_RISING,
                                 [export_ok |-> TRUE, line_ok |-> TRUE], sys))

\* hcsr04.c:193, to the poll in gpiopin_wait_for_trigger (gpiopin.c:193-201)
read_one_wait_rising(i) ==
    LoopCall(i, "wait_rising", "poll_rising", "poll",
             gpiopin_wait_for_trigger(gpiopin_echo, sys))

\* gpiopin.c:201-203 and hcsr04.c:196: poll returns, on the rising edge or on
\* its timeout, and the clock is read
read_one_start(i) ==
    LoopCall(i, "poll_rising", "trigger_falling", "gpiopin_wait_for_trigger",
             [ok |-> TRUE, sys |-> sys])

\* hcsr04.c:199
read_one_trigger_falling(i) ==
    LoopCall(i, "trigger_falling", "wait_falling", "gpiopin_set_trigger",
             gpiopin_set_trigger(gpiopin_echo, GPIOPIN_FALLING,
                                 [export_ok |-> TRUE, line_ok |-> TRUE], sys))

\* hcsr04.c:200, to the poll in gpiopin_wait_for_trigger (gpiopin.c:193-201)
read_one_wait_falling(i) ==
    LoopCall(i, "wait_falling", "poll_falling", "poll",
             gpiopin_wait_for_trigger(gpiopin_echo, sys))

\* gpiopin.c:201-203, hcsr04.c:202-212 and 116-129: poll returns, on the
\* falling edge or on its timeout, the clock is read again, hcsr04_read_one
\* returns, the loop takes the sample and sleeps.  end - start is the time the
\* second poll took.
loop_sample(i, edge) ==
    /\ ~aborted
    /\ "hcsr04" \notin freed
    /\ pc[i].at = "poll_falling"
    /\ LET usec == poll_time(TRIGGER_WAIT, edge)
           x == hcsr04_read_one(usec)
       IN  /\ elapsed' = usec
           /\ cycles' = cycles + 1
           /\ run' = IF x < 0 THEN 0
                     ELSE IF run < HCSR04_VALID_SAMPLES THEN run + 1
                     ELSE run
           /\ IF loop_is_good(x)
              THEN /\ avg' = loop_avg(x, avg)
                   /\ good_count' = loop_count_up(good_count)
              ELSE /\ avg' = avg
                   /\ good_count' = loop_count_down(good_count)
           /\ ret' = [op |-> "hcsr04_read_one", val |-> RetInt(x)]
    /\ pc' = [pc EXCEPT ![i] = [at |-> "while",
                                late |-> IF stop THEN @.late + 1 ELSE @.late]]
    /\ UNCHANGED <<stop, gpiopin_sound, gpiopin_echo, sys, threads, aborted,
                   error, inits, line, freed, race>>

\* A loop thread goes on after hcsr04_destroy has freed self (the thread is
\* detached and never joined, hcsr04.c:156-157): its next read of *self is a
\* read of freed memory, after which the thread returns or the process ends.
loop_freed(i) ==
    /\ ~aborted
    /\ "hcsr04" \in freed
    /\ pc[i].at \notin {"none", "done"}
    /\ \/ /\ pc' = [pc EXCEPT ![i].at = "done"]
          /\ threads' = threads - 1
          /\ ret' = [op |-> "hcsr04_loop", val |-> Void]
          /\ UNCHANGED aborted
       \/ /\ aborted' = TRUE
          /\ ret' = [op |-> "abort", val |-> Void]
          /\ UNCHANGED <<pc, threads>>
    /\ UNCHANGED <<avg, good_count, stop, gpiopin_sound, gpiopin_echo, sys,
                   error, elapsed, cycles, run, inits, line, freed, race>>

\* The next step of thread i
hcsr04_loop_thread(i) ==
    \/ loop_while(i)
    \/ read_one_set_high(i)
    \/ read_one_set_low(i)
    \/ read_one_trigger_rising(i)
    \/ read_one_wait_rising(i)
    \/ read_one_start(i)
    \/ read_one_trigger_falling(i)
    \/ read_one_wait_falling(i)
    \/ \E edge \in EchoSet : loop_sample(i, edge)
    \/ loop_freed(i)

NextThreads ==
    \/ hcsr04_init_thread
    \/ hcsr04_uninit
    \/ hcsr04_destroy
    \/ \E i \in 1 .. MaxInits : hcsr04_loop_thread(i)

SpecThreads == Init /\ [][NextThreads]_vars

\* Every loop thread that can take a step is scheduled in the end
SpecThreadsFair ==
    SpecThreads /\ \A i \in 1 .. MaxInits : WF_vars(hcsr04_loop_thread(i))

\* C17: whenever a loop thread is about to call gpiopin_set on the sound line,
\* or gpiopin_set_trigger or gpiopin_wait_for_trigger on the echo line, that
\* line is initialised (its value_fd is >= 0): the asserts of those calls
\* hold, whatever the caller's hcsr04_init, hcsr04_uninit and hcsr04_destroy
\* did in between.
C17_LineOpsOnInitialisedLines ==
    \A i \in 1 .. MaxInits :
        /\ pc[i].at \in {"set_high", "set_low"}
             => gpiopin_sound.value_fd >= 0
        /\ pc[i].at \in {"trigger_rising", "wait_rising", "trigger_falling",
                         "wait_falling"}
             => gpiopin_echo.value_fd >= 0

\* C18: once hcsr04_uninit has set stop, every loop thread that was started
\* returns in the end, through the test at the top of its loop (the object
\* being kept: hcsr04_destroy is not called); a thread completes at most one
\* cycle (the one in flight or about to start) with stop set, so avg and
\* good_count are written at most once more by it.
C18_CooperativeShutdown ==
    /\ [](\A i \in 1 .. MaxInits : pc[i].late <= 1)
    /\ \A i \in 1 .. MaxInits :
          (stop /\ pc[i].at # "none" /\ "hcsr04" \notin freed)
              ~> (pc[i].at = "done" \/ "hcsr04" \in freed)

\* C19: neither wait of a cycle blocks for ever: a thread that is in poll
\* leaves it (on the edge or on the timeout) as long as the process lives.
\* When the sensor does not answer, the second poll returns after the whole
\* TRIGGER_WAIT, hcsr04_read_one returns the negative NO_DATA, and the loop
\* takes the cycle as a rejected sample: avg is kept and good_count goes
\* down by one, not below 0.
C19_NoResponseIsRejected ==
    /\ [][\A i \in 1 .. MaxInits :
            loop_sample(i, NoEdge)
                => /\ elapsed' = TRIGGER_WAIT
                   /\ elapsed' > max_time
                   /\ ret'.op = "hcsr04_read_one"
                   /\ ret'.val.int = NO_DATA
                   /\ ret'.val.int < 0
                   /\ avg' = avg
                   /\ good_count' = Max(good_count - 1, 0)
                   /\ pc'[i].at = "while"]_vars
    /\ \A i \in 1 .. MaxInits :
          (pc[i].at \in {"poll_rising", "poll_falling"})
              ~> (pc[i].at \notin {"poll_rising", "poll_falling"} \/ aborted)

\* C19's case: after a cycle that gave a distance, a cycle in which the
\* sensor did not answer has been read and rejected.
C19_Witness ==
    /\ ret.op = "hcsr04_read_one"
    /\ cycles = 2
    /\ elapsed = TRIGGER_WAIT
    /\ ret.val.int = NO_DATA
    /\ avg.num > 0
    /\ good_count = 0
    /\ \E i \in 1 .. MaxInits : pc[i].at = "while"

\* C20: at most one hcsr04_loop thread is alive at any time, whatever calls
\* of hcsr04_init and hcsr04_uninit the caller makes: avg and good_count
\* have one writer and the two lines one user.
C20_SingleLoop == threads <= 1

\* C21: a hcsr04_init that succeeds returns with stop clear, so that the
\* loop it has started finds the flag clear at its first test and runs
\* cycles: also the init of the sequence init, uninit, init.
C21_InitLeavesLoopRunning ==
    [][(/\ ret'.op = "hcsr04_init"
        /\ inits' = inits + 1
        /\ ret'.val.bool = TRUE)
         => ~stop']_vars

(***************************************************************************)
(* One iteration's update and a caller's read, one access at a time.       *)
(* self->avg and self->good_count are plain members, written by the loop   *)
(* thread (hcsr04.c:119-127) and read by the callers' threads              *)
(* (hcsr04.c:220, 228-229) with no lock, atomic or barrier between them:   *)
(* a data race.  The store to avg and the store to good_count of one       *)
(* iteration become visible to a reader in either order; the clamp follows *)
(* the store to good_count, being a store to the same member.              *)
(***************************************************************************)
\* An echo from one metre and the shortest time that is a timeout
RaceElapsedSet == {5831, max_time + 1}

\* hcsr04.c:120: self->good_count++
loop_count_inc(n) == n + 1

\* hcsr04.c:121-122
loop_clamp_up(n) ==
    IF n > HCSR04_VALID_SAMPLES THEN HCSR04_VALID_SAMPLES ELSE n

\* hcsr04.c:126: self->good_count--
loop_count_dec(n) == n - 1

\* hcsr04.c:127
loop_clamp_down(n) == IF n < 0 THEN 0 ELSE n

\* hcsr04.c:117-128 as a whole, from good_count = s.n and avg = s.a
loop_update(x, s) ==
    IF loop_is_good(x)
    THEN [n |-> loop_clamp_up(loop_count_inc(s.n)), a |-> loop_avg(x, s.a)]
    ELSE [n |-> loop_clamp_down(loop_count_dec(s.n)), a |-> s.a]

\* What a call of hcsr04_is_distance_valid or of hcsr04_get_distance returns
\* when it meets no iteration, or the iteration in progress as a whole
ValidResults(cur) ==
    IF race.pending = {}
    THEN {RetBool(hcsr04_is_distance_valid(cur.n))}
    ELSE {RetBool(hcsr04_is_distance_valid(race.before.n)),
          RetBool(hcsr04_is_distance_valid(race.after.n))}

DistanceResults(cur) ==
    IF race.pending = {}
    THEN {RetFrac(hcsr04_get_distance(cur.n, cur.a))}
    ELSE {RetFrac(hcsr04_get_distance(race.before.n, race.before.a)),
          RetFrac(hcsr04_get_distance(race.after.n, race.after.a))}

\* hcsr04.c:139-165, on a sensor that has no loop yet
hcsr04_init_first ==
    /\ threads = 0
    /\ hcsr04_init

\* hcsr04.c:114-117: the loop finds stop clear, hcsr04_read_one returns x and
\* the iteration begins its update.  A call of hcsr04_get_distance that is
\* between its two reads meets at most one iteration.
loop_read_one(usec) ==
    /\ ~aborted
    /\ "hcsr04" \notin freed
    /\ threads > 0
    /\ ~stop
    /\ cycles < MaxCycles
    /\ race.pending = {}
    /\ race.reading => race.spans = 0
    /\ LET io == read_one_lines(gpiopin_sound, gpiopin_echo,
                                [export_ok |-> TRUE, line_ok |-> TRUE], sys)
           x == hcsr04_read_one(usec)
           before == [n |-> good_count, a |-> avg]
           after == loop_update(x, before)
       IN  /\ sys' = io.sys
           /\ IF io.ok
              THEN /\ elapsed' = usec
                   /\ cycles' = cycles + 1
                   /\ run' = IF x < 0 THEN 0
                             ELSE IF run < HCSR04_VALID_SAMPLES THEN run + 1
                             ELSE run
                   /\ race' = [race EXCEPT
                         !.pending = IF loop_is_good(x)
                                     THEN {"avg", "count"} ELSE {"count"},
                         !.x = x,
                         !.before = before,
                         !.after = after,
                         !.ok = IF race.reading
                                THEN @ \cup {RetFrac(hcsr04_get_distance(
                                                        after.n, after.a))}
                                ELSE @,
                         !.spans = IF race.reading THEN 1 ELSE @]
                   /\ ret' = [op |-> "hcsr04_read_one", val |-> RetInt(x)]
                   /\ UNCHANGED aborted
              ELSE /\ aborted' = TRUE
                   /\ ret' = [op |-> "abort", val |-> Void]
                   /\ UNCHANGED <<elapsed, cycles, run, race>>
    /\ UNCHANGED <<avg, good_count, stop, gpiopin_sound, gpiopin_echo,
                   threads, error, inits, line, freed, pc>>

\* What a store of the loop leaves alone
loop_store_vars ==
    <<stop, gpiopin_sound, gpiopin_echo, sys, threads, aborted, error, ret,
      elapsed, cycles, run, inits, line, freed, pc>>

\* hcsr04.c:119: the store to self->avg is seen by the other threads
loop_store_avg ==
    /\ ~aborted
    /\ "avg" \in race.pending
    /\ avg' = loop_avg(race.x, race.before.a)
    /\ race' = [race EXCEPT !.pending = @ \ {"avg"}]
    /\ UNCHANGED good_count
    /\ UNCHANGED loop_store_vars

\* hcsr04.c:120 and 126: the store of self->good_count++ or of
\* self->good_count-- is seen by the other threads, not yet clamped
loop_store_count ==
    /\ ~aborted
    /\ "count" \in race.pending
    /\ good_count' = IF loop_is_good(race.x)
                     THEN loop_count_inc(good_count)
                     ELSE loop_count_dec(good_count)
    /\ race' = [race EXCEPT !.pending = (@ \ {"count"}) \cup {"clamp"}]
    /\ UNCHANGED avg
    /\ UNCHANGED loop_store_vars

\* hcsr04.c:121-122 and 127: the test of the clamp and its store
loop_store_clamp ==
    /\ ~aborted
    /\ "clamp" \in race.pending
    /\ good_count' = IF loop_is_good(race.x)
                     THEN loop_clamp_up(good_count)
                     ELSE loop_clamp_down(good_count)
    /\ race' = [race EXCEPT !.pending = @ \ {"clamp"}]
    /\ UNCHANGED avg
    /\ UNCHANGED loop_store_vars

\* What a read of a caller leaves alone
reader_vars ==
    <<avg, good_count, stop, gpiopin_sound, gpiopin_echo, sys, threads,
      aborted, error, elapsed, cycles, run, inits, line, freed, pc>>

\* hcsr04.c:218-221 called by a consumer (main.c:44): one read of good_count
reader_is_distance_valid ==
    /\ ~aborted
    /\ "hcsr04" \notin freed
    /\ ~race.reading
    /\ ret' = [op |-> "hcsr04_is_distance_valid",
               val |-> RetBool(hcsr04_is_distance_valid(good_count))]
    /\ race' = [race EXCEPT
                  !.ok = ValidResults([n |-> good_count, a |-> avg]),
                  !.spans = 0]
    /\ UNCHANGED reader_vars

\* hcsr04.c:228 and 231, called by a consumer (main.c:45): the read of
\* good_count, and the return of -1.0 when it is below the threshold
reader_get_distance_valid ==
    /\ ~aborted
    /\ "hcsr04" \notin freed
    /\ ~race.reading
    /\ IF hcsr04_is_distance_valid(good_count)
       THEN /\ race' = [race EXCEPT
                          !.reading = TRUE,
                          !.ok = DistanceResults([n |-> good_count,
                                                  a |-> avg]),
                          !.spans = IF race.pending = {} THEN 0 ELSE 1]
            /\ UNCHANGED ret
       ELSE /\ race' = [race EXCEPT
                          !.ok = DistanceResults([n |-> good_count,
                                                  a |-> avg]),
                          !.spans = 0]
            /\ ret' = [op |-> "hcsr04_get_distance",
                       val |-> RetFrac(hcsr04_get_distance(good_count, avg))]
    /\ UNCHANGED reader_vars

\* hcsr04.c:229: the read of avg and the return
reader_get_distance_avg ==
    /\ ~aborted
    /\ "hcsr04" \notin freed
    /\ race.reading
    /\ ret' = [op |-> "hcsr04_get_distance", val |-> RetFrac(avg)]
    /\ race' = [race EXCEPT !.reading = FALSE]
    /\ UNCHANGED reader_vars

NextRace ==
    \/ hcsr04_init_first
    \/ \E usec \in RaceElapsedSet : loop_read_one(usec)
    \/ loop_store_avg
    \/ loop_store_count
    \/ loop_store_clamp
    \/ reader_is_distance_valid
    \/ reader_get_distance_valid
    \/ reader_get_distance_avg

SpecRace == Init /\ [][NextRace]_vars

============================================================================
